---------------------------- MODULE Spec2Model ----------------------------
(***************************************************************************)
(* A model of the movie-database backend: the rating upsert (rate_movie),  *)
(* the cached average rating (MovieService.update_movie_rating), the       *)
(* popularity score (calculate_popularity_score) and the nightly snapshot  *)
(* and ranking pass (update_popularity_snapshots).                         *)
(*                                                                         *)
(* The relational store is modelled by its committed tables.  A request    *)
(* works in its own session: what it has read and what it is about to      *)
(* write live in the request's record until db.session.commit() applies it *)
(* to the tables, or db.session.rollback() drops it.  Every statement that *)
(* reaches the store can fail (connection loss, lock timeout): each such   *)
(* step has a failing twin that follows the code's except branch.          *)
(*                                                                         *)
(* Numbers: an average is kept as the exact pair (sum, count); imdb_score  *)
(* is kept in tenths (70 is 7.0).                                          *)
(***************************************************************************)
EXTENDS Integers, Sequences, FiniteSets, TLC

\* ------------------------------------------------------------------ bounds
NumUsers == 2
NumMovies == 2
NumProcs == 2
MaxTime == 1
MaxRequests == 2
MaxNightTime == 1
MaxRaters == 4
MaxFiller == 9
MaxAvgCount == 2
MaxComments == 3
MaxAdds == 3
MaxIssued == 3
\* Clock ticks per calendar day.
TicksPerDay == 2
\* timedelta(days=7)
WindowDays == 7

Users == 1..NumUsers
Movies == 1..NumMovies
Procs == 1..NumProcs
\* Movie ids a client can send: the movies of the store and one unknown id.
MovieIds == {0, 1}

\* data.get('comment'): None when the field is absent.
None == "<None>"
CommentInputs == {None, "good"}
\* data['rating'] as sent by the client, a JSON number in tenths: 0, 7.5, 10
\* and 11.  0 and 11 fall outside [1,10]; 7.5 is not an integer.
RatingInputs == {0, 75, 100, 110}
\* The request body: 'rating' may be missing altogether.
RatingData == {[given |-> FALSE, rating |-> 0]}
                \cup {[given |-> TRUE, rating |-> r] : r \in RatingInputs}

VARIABLES
    ratings,      \* table ratings: set of rows
    imdb_score,   \* Movie.imdb_score per movie, in tenths
    now,          \* datetime.utcnow(), in ticks
    req,          \* per worker: the request it is handling
    served,       \* requests accepted so far
    watchlist,    \* table watchlist: set of rows
    snapshots,    \* table popularity_snapshots: set of rows
    batch,        \* the nightly pass: its position and its session
    lastRun,      \* what the last committed pass computed, per movie
    catalog,      \* tables movies (texts), actors and movie_actors
    search,       \* the search or typeahead request and its response
    calc,         \* the inputs and the result of a score calculation
    accounts,     \* table users: set of rows
    auth,         \* the register or login request and its response
    collation,    \* how the store compares text: "ci" or "cs"
    tokens,       \* the JWTs issued so far, as their holders present them
    toggles       \* per worker: the watchlist toggle it is handling

vars == <<ratings, imdb_score, now, req, served,
          watchlist, snapshots, batch, lastRun, catalog, search,
          calc, accounts, auth, collation, tokens, toggles>>

\* What the rating requests leave alone, and what the nightly pass does.
nightVars == <<watchlist, snapshots, batch, lastRun>>
rateVars == <<imdb_score, req, served>>
\* The state of the search endpoints, of a stand-alone score calculation and
\* of the account endpoints.
searchVars == <<catalog, search>>
authVars == <<accounts, auth, collation, tokens>>
apiVars == <<searchVars, calc, authVars, toggles>>

\* ------------------------------------------------------------- rating rows
RatingRow(id, m, u, r, c, t) ==
    [id |-> id, movie_id |-> m, user_id |-> u, rating |-> r, comment |-> c,
     created_at |-> t]

\* Rating.query.filter_by(movie_id=..., user_id=...)
RowsOf(rows, m, u) == {x \in rows : x.movie_id = m /\ x.user_id = u}

\* Rating.query.filter(Rating.movie_id == movie_id)
RowsOfMovie(rows, m) == {x \in rows : x.movie_id = m}

RECURSIVE SumRatings(_)
SumRatings(rows) ==
    IF rows = {} THEN 0
    ELSE LET x == CHOOSE y \in rows : TRUE
         IN  x.rating + SumRatings(rows \ {x})

\* func.avg(Rating.rating) over the movie's rows: the exact mean as the pair
\* <<sum, count>>; count 0 stands for SQL NULL (None).
AvgRating(rows, m) ==
    <<SumRatings(RowsOfMovie(rows, m)), Cardinality(RowsOfMovie(rows, m))>>

\* round(float(avg), 1) in tenths.  Python rounds the double to the nearest
\* tenth; a mean that lies exactly between two tenths is a multiple of 1/4
\* for fewer than 20 rows, which a double holds exactly, and is rounded to
\* the even tenth.
Round1_Truncate(sum, n) == (10 * sum) \div n

Round1(sum, n) ==
    LET q == (10 * sum) \div n
        r == (10 * sum) % n
    IN  IF 2 * r > n THEN q + 1
        ELSE IF 2 * r < n THEN q
        ELSE IF q % 2 = 0 THEN q ELSE q + 1

\* movie.imdb_score = round(float(avg_rating), 1) if avg_rating else 0.0
NewImdbScore(avg) == IF avg[2] = 0 THEN 0 ELSE Round1(avg[1], avg[2])

\* int(rating) of a JSON number (in tenths): the fraction is cut off.
PyInt(r) == r \div 10

\* validate_rating: 1 <= int(rating) <= 10
validate_rating(r) == 1 <= PyInt(r) /\ PyInt(r) <= 10

\* Rating.rating is a SMALLINT column: the store converts the bound number
\* to an integer, cutting the fraction off.
SmallInt(r) == r \div 10

\* Rating.id, default=uuid.uuid4: a value no row of the table carries.  Rows
\* are never deleted, so (movie, user, ordinal among the pair's rows) is fresh.
FreshId(rows, m, u) == <<m, u, Cardinality(RowsOf(rows, m, u)) + 1>>

NoRow == <<0, 0, 0>>

\* ---------------------------------------------------------------- requests
IdleReq ==
    [pc |-> "idle", user_id |-> 0, movie_id |-> 0, sent |-> 0, rating |-> 0,
     comment |-> None, existing |-> NoRow, status_code |-> 0, status |-> 0,
     avg |-> <<0, 0>>, recompute |-> "none",
     pre_ratings |-> {}, pre_imdb |-> 0]


\* ------------------------------------------------------------- nightly pass
\* today = datetime.utcnow().date()
Date(t) == t \div TicksPerDay

SnapshotRow(m, d, sc, rk) ==
    [movie_id |-> m, snapshot_date |-> d, score |-> sc, rank |-> rk]

IdleBatch ==
    [pc |-> "idle", today |-> 0, todo |-> {}, sess |-> {}, result |-> "none",
     errs |-> {}, adds |-> [m \in Movies |-> 0], pre_snapshots |-> {},
     prev |-> [date |-> -1, errs |-> {}, adds |-> [m \in Movies |-> 0]]]

NoRun == [date |-> -1, errs |-> {}, adds |-> [m \in Movies |-> 0]]

\* ------------------------------------------------------ catalogue and search
\* The catalogue: movies (title, original_title, summary) and actors
\* (full_name) by id, and the billing rows of movie_actors.  Texts are
\* sequences of characters.
EmptyCatalog == [movies |-> <<>>, actors |-> <<>>, movie_actors |-> {}]

\* No search request is being answered.
IdleSearch ==
    [endpoint |-> "none", q |-> <<>>, type |-> "all", status |-> 0,
     msg |-> "", suggestions |-> <<>>, results |-> <<>>, failed |-> FALSE]

\* The search endpoints are at rest and the catalogue is empty.
NoSearch ==
    /\ catalog = EmptyCatalog
    /\ search = IdleSearch

\* No score is being calculated on its own.
IdleCalc ==
    [avg |-> <<0, 0>>, comment_count |-> 0, page_views_7d |-> 0,
     watchlist_adds_7d |-> 0, score |-> 0, prev |-> 0, raised |-> "none",
     movie_id |-> 0, rows |-> {}]

NoCalc == calc = IdleCalc

\* The absent Authorization header.
NoToken == [jti |-> 0, sub |-> 0, type |-> "none"]

\* No account request is being answered.
IdleAuth ==
    [endpoint |-> "none", email |-> <<>>, password |-> <<>>, status |-> 0,
     msg |-> "", body |-> {}, user |-> 0, registered |-> {},
     token |-> NoToken, loggedOut |-> {}]

\* No account exists and the account endpoints are at rest.
NoAuth ==
    /\ accounts = {}
    /\ auth = IdleAuth
    /\ collation = "ci"
    /\ tokens = {}

\* No watchlist toggle is being handled.
NoEntry == [user_id |-> 0, movie_id |-> 0, added_at |-> 0]
IdleToggle ==
    [pc |-> "idle", user_id |-> 0, movie_id |-> 0, existing |-> NoEntry,
     action |-> "none", status |-> 0, raced |-> FALSE, changed |-> FALSE]
NoToggle == toggles = [p \in Procs |-> IdleToggle]

\* Everything but the ratings and the nightly pass is at rest.
ApiIdle == NoSearch /\ NoCalc /\ NoAuth /\ NoToggle


Init ==
    /\ ratings = {}
    /\ imdb_score = [m \in Movies |-> 0]
    /\ now = 0
    /\ req = [p \in Procs |-> IdleReq]
    /\ served = 0
    /\ watchlist = {}
    /\ snapshots = {}
    /\ batch = IdleBatch
    /\ lastRun = NoRun
    /\ ApiIdle

\* The clock advances between any two steps.
Tick ==
    /\ now < MaxTime
    /\ now' = now + 1
    /\ UNCHANGED <<ratings, imdb_score, req, served, nightVars, apiVars>>

\* --------------------------------------------------------------- rate_movie
\* The session's pending change of rate_movie: the row found by the
\* 'existing rating?' read is updated in place (rating and comment only),
\* otherwise a new row is added with a fresh id and created_at = utcnow().
UpsertRows_AlwaysInsert(rows, existing, id, m, u, r, c, t) ==
    rows \cup {RatingRow(id, m, u, r, c, t)}

UpsertRows_Recreate(rows, existing, id, m, u, r, c, t) ==
    {x \in rows : x.id # existing} \cup {RatingRow(id, m, u, r, c, t)}

\* UpsertRows that keeps the row's comment when the request carries none.
UpsertRows_KeepComment(rows, existing, id, m, u, r, c, t) ==
    IF existing # NoRow
    THEN {IF x.id = existing
          THEN [x EXCEPT !.rating = r,
                         !.comment = IF c = None THEN x.comment ELSE c]
          ELSE x : x \in rows}
    ELSE rows \cup {RatingRow(id, m, u, r, c, t)}

UpsertRows(rows, existing, id, m, u, r, c, t) ==
    IF existing # NoRow
    THEN {IF x.id = existing THEN [x EXCEPT !.rating = r, !.comment = c]
          ELSE x : x \in rows}
    ELSE rows \cup {RatingRow(id, m, u, r, c, t)}

\* status_code chosen with the branch: 200 'Rating updated successfully',
\* 201 'Rating submitted successfully'.
UpsertStatus(existing) == IF existing # NoRow THEN 200 ELSE 201

\* What Rating.query.filter_by(...).first() can return: one of the pair's
\* rows (the query has no ORDER BY), or None (NoRow) when there is none.
FirstExisting(rows, m, u) ==
    IF RowsOf(rows, m, u) = {} THEN {NoRow} ELSE {x.id : x \in RowsOf(rows, m, u)}

Finish(p, st) ==
    req' = [req EXCEPT ![p].pc = "done", ![p].status = st]

\* rate_movie up to and including the 'existing rating?' read.
RateRequest(p, u, m, d, c) ==
    /\ req[p].pc = "idle"
    /\ UNCHANGED <<ratings, imdb_score, now, nightVars, apiVars>>
    /\ LET r0 == [IdleReq EXCEPT !.user_id = u, !.movie_id = m,
                                 !.sent = d.rating,
                                 !.rating = SmallInt(d.rating), !.comment = c,
                                 !.pre_ratings = ratings,
                                 !.pre_imdb = IF m \in Movies
                                              THEN imdb_score[m] ELSE 0]
       IN  IF m \notin Movies
           THEN req' = [req EXCEPT ![p] = [r0 EXCEPT !.pc = "done",
                                                     !.status = 404]]
           ELSE IF ~d.given \/ ~validate_rating(d.rating)
           THEN req' = [req EXCEPT ![p] = [r0 EXCEPT !.pc = "done",
                                                     !.status = 400]]
           ELSE \E e \in FirstExisting(ratings, m, u) :
                  req' = [req EXCEPT ![p] =
                            [r0 EXCEPT !.pc = "commit", !.existing = e,
                                       !.status_code = UpsertStatus(e)]]

\* A read of rate_movie raises: except branch, rollback, 500.
RateReadFail(p, u, m) ==
    /\ req[p].pc = "idle"
    /\ req' = [req EXCEPT ![p] =
                 [IdleReq EXCEPT !.pc = "done", !.status = 500,
                                 !.user_id = u, !.movie_id = m,
                                 !.pre_ratings = ratings,
                                 !.pre_imdb = imdb_score[m]]]
    /\ UNCHANGED <<ratings, imdb_score, now, nightVars, apiVars>>

\* db.session.commit() of the inserted or updated row.
RateCommit(p) ==
    /\ req[p].pc = "commit"
    /\ ratings' = UpsertRows(ratings, req[p].existing,
                             FreshId(ratings, req[p].movie_id, req[p].user_id),
                             req[p].movie_id, req[p].user_id,
                             req[p].rating, req[p].comment, now)
    /\ req' = [req EXCEPT ![p].pc = "avg"]
    /\ UNCHANGED <<imdb_score, now, served, nightVars, apiVars>>

\* The commit raises: db.session.rollback(), 500.
RateCommitFail(p) ==
    /\ req[p].pc = "commit"
    /\ Finish(p, 500)
    /\ UNCHANGED <<ratings, imdb_score, now, served, nightVars, apiVars>>

\* update_movie_rating: the AVG query and Movie.query.get.
UpdateRatingRead(p) ==
    /\ req[p].pc = "avg"
    /\ req' = [req EXCEPT ![p].pc = "avg_commit",
                          ![p].avg = AvgRating(ratings, req[p].movie_id)]
    /\ UNCHANGED <<ratings, imdb_score, now, served, nightVars, apiVars>>

\* update_movie_rating raises: rollback, return False; rate_movie does not
\* look at the returned value and goes on to build its response.
UpdateRatingFail(p) ==
    /\ req[p].pc \in {"avg", "avg_commit"}
    /\ req' = [req EXCEPT ![p].pc = "respond", ![p].recompute = "failed"]
    /\ UNCHANGED <<ratings, imdb_score, now, served, nightVars, apiVars>>

\* update_movie_rating: movie.imdb_score = ...; db.session.commit()
UpdateRatingCommit(p) ==
    /\ req[p].pc = "avg_commit"
    /\ imdb_score' = [imdb_score EXCEPT
                        ![req[p].movie_id] = NewImdbScore(req[p].avg)]
    /\ req' = [req EXCEPT ![p].pc = "respond", ![p].recompute = "ok"]
    /\ UNCHANGED <<ratings, now, served, nightVars, apiVars>>

\* return jsonify({'msg': msg, 'rating': rating.to_dict()}), status_code
RateRespond(p) ==
    /\ req[p].pc = "respond"
    /\ Finish(p, req[p].status_code)
    /\ UNCHANGED <<ratings, imdb_score, now, served, nightVars, apiVars>>

\* rating.to_dict() reloads the expired row and raises: 500.
RateRespondFail(p) ==
    /\ req[p].pc = "respond"
    /\ Finish(p, 500)
    /\ UNCHANGED <<ratings, imdb_score, now, served, nightVars, apiVars>>

\* The worker is free for the next request.
Return(p) ==
    /\ req[p].pc = "done"
    /\ req' = [req EXCEPT ![p] = IdleReq]
    /\ UNCHANGED <<ratings, imdb_score, now, served, nightVars, apiVars>>

RateSteps(p) ==
    \/ RateCommit(p)
    \/ RateCommitFail(p)
    \/ UpdateRatingRead(p)
    \/ UpdateRatingFail(p)
    \/ UpdateRatingCommit(p)
    \/ RateRespond(p)
    \/ RateRespondFail(p)
    \/ Return(p)

\* ----------------------------------------------- calculate_popularity_score
\* round(log10(k) * 10^7) for k = 1..46
Log10e7 ==
    <<0, 3010300, 4771213, 6020600, 6989700, 7781513, 8450980, 9030900,
      9542425, 10000000, 10413927, 10791812, 11139434, 11461280, 11760913,
      12041200, 12304489, 12552725, 12787536, 13010300, 13222193, 13424227,
      13617278, 13802112, 13979400, 14149733, 14313638, 14471580, 14623980,
      14771213, 14913617, 15051500, 15185139, 15314789, 15440680, 15563025,
      15682017, 15797836, 15910646, 16020600, 16127839, 16232493, 16334685,
      16434527, 16532125, 16627578>>

\* Rating.comment.isnot(None): the rows of the movie whose comment is not NULL.
CommentCount(rows, m) ==
    Cardinality({x \in RowsOfMovie(rows, m) : x.comment # None})

\* Watchlist.added_at >= datetime.utcnow() - timedelta(days=7)
WatchAdds7d(wl, m, t) ==
    Cardinality({e \in wl : e.movie_id = m
                            /\ e.added_at >= t - WindowDays * TicksPerDay})

\* total_score is an exact multiple of 0.005 when the average is a half
\* (n.5) and the logarithms add up to a multiple of 0.1; the sum of doubles
\* then falls just below or just above the tie.  For these inputs, as
\* <<2 * avg, comment_count, page_views_7d, watchlist_adds_7d>>, it falls
\* below and round(total_score, 2) rounds down; every other tie rounds up.
ScoreTiesDown ==
    {<<1, 0, 0, 9>>, <<3, 0, 0, 0>>, <<3, 0, 0, 9>>, <<5, 0, 0, 0>>,
     <<5, 3, 24, 9>>, <<5, 4, 19, 9>>, <<5, 9, 9, 9>>, <<7, 0, 0, 0>>,
     <<7, 0, 9, 9>>, <<7, 1, 4, 9>>, <<7, 4, 1, 9>>, <<7, 4, 19, 0>>,
     <<7, 4, 19, 9>>, <<7, 9, 0, 9>>, <<7, 9, 9, 0>>, <<7, 9, 9, 9>>,
     <<9, 3, 24, 0>>, <<9, 3, 24, 9>>, <<9, 4, 19, 0>>, <<9, 4, 19, 9>>,
     <<9, 9, 9, 0>>, <<9, 9, 9, 9>>, <<13, 0, 9, 9>>, <<13, 1, 4, 9>>,
     <<13, 1, 24, 3>>, <<13, 4, 1, 9>>, <<13, 4, 9, 3>>, <<13, 9, 0, 9>>,
     <<13, 9, 4, 3>>, <<15, 0, 0, 9>>, <<15, 0, 9, 0>>, <<15, 0, 9, 9>>,
     <<15, 1, 4, 0>>, <<15, 1, 4, 9>>, <<15, 9, 0, 0>>, <<15, 9, 0, 9>>,
     <<15, 9, 9, 0>>, <<15, 9, 9, 9>>, <<17, 0, 0, 0>>, <<17, 0, 4, 3>>,
     <<17, 0, 9, 0>>, <<17, 0, 9, 9>>, <<17, 1, 4, 0>>, <<17, 1, 4, 9>>,
     <<17, 4, 0, 3>>, <<17, 4, 1, 0>>, <<17, 4, 1, 9>>, <<17, 4, 19, 0>>,
     <<17, 4, 19, 9>>, <<17, 9, 0, 0>>, <<17, 9, 0, 9>>, <<17, 9, 9, 0>>,
     <<17, 9, 9, 9>>, <<19, 0, 0, 0>>, <<19, 0, 0, 9>>, <<19, 0, 4, 3>>,
     <<19, 3, 24, 9>>, <<19, 4, 0, 3>>, <<19, 4, 1, 0>>, <<19, 4, 1, 9>>,
     <<19, 4, 9, 3>>, <<19, 4, 19, 9>>, <<19, 9, 9, 9>>}

\* total_score in units of 10^-8:
\*   0.5 * (avg / 10) + 0.2 * log10(c + 1) + 0.2 * log10(v + 1)
\*                    + 0.1 * log10(w + 1)
total_score_MinusWatchlist(avg, c, v, w) ==
    (IF avg[2] = 0 THEN 0 ELSE (5000000 * avg[1]) \div avg[2])
    + 2 * Log10e7[c + 1] + 2 * Log10e7[v + 1] - Log10e7[w + 1]

total_score(avg, c, v, w) ==
    (IF avg[2] = 0 THEN 0 ELSE (5000000 * avg[1]) \div avg[2])
    + 2 * Log10e7[c + 1] + 2 * Log10e7[v + 1] + Log10e7[w + 1]

\* The inputs are one of the ties that round down.
TieDown(avg, c, v, w) ==
    /\ avg[2] # 0
    /\ (2 * avg[1]) % avg[2] = 0
    /\ <<(2 * avg[1]) \div avg[2], c, v, w>> \in ScoreTiesDown

\* round(total_score, 2) in hundredths.
Round2(total, down) ==
    LET q == total \div 1000000
        r == total % 1000000
    IN  IF r > 500000 THEN q + 1
        ELSE IF r < 500000 THEN q
        ELSE IF down THEN q ELSE q + 1

\* The score of the four inputs.
popularity_score(avg, c, v, w) ==
    Round2(total_score(avg, c, v, w), TieDown(avg, c, v, w))

\* page_views_7d = comment_count * 5
ScoreOf(avg, c, w) == popularity_score(avg, c, c * 5, w)

calculate_popularity_score(rows, wl, m, t) ==
    ScoreOf(AvgRating(rows, m), CommentCount(rows, m), WatchAdds7d(wl, m, t))

\* except Exception: return 0.0
ErrorScore == 0

\* ---------------------------------------------- update_popularity_snapshots
SnapshotsOf(rows, m, d) ==
    {x \in rows : x.movie_id = m /\ x.snapshot_date = d}

\* SnapshotsOn without the date filter.
SnapshotsOn_AnyDate(rows, d) == rows

SnapshotsOn(rows, d) == {x \in rows : x.snapshot_date = d}

\* The snapshot of (movie, today) gets the score; a missing one is added
\* with rank unset (0 stands for NULL).
UpsertSnapshot_AlwaysAdd(rows, m, d, sc) ==
    rows \cup {SnapshotRow(m, d, sc, 0)}

UpsertSnapshot(rows, m, d, sc) ==
    IF SnapshotsOf(rows, m, d) # {}
    THEN {IF x.movie_id = m /\ x.snapshot_date = d
          THEN [x EXCEPT !.score = sc] ELSE x : x \in rows}
    ELSE rows \cup {SnapshotRow(m, d, sc, 0)}

\* ...filter_by(snapshot_date=today).order_by(score.desc()).all(): every
\* listing of the date's rows in which the score never rises; rows of equal
\* score come in any order.
ScoreOrdered_Ascending(s) ==
    \A i \in 1..(Len(s) - 1) : s[i].score <= s[i + 1].score

ScoreOrdered(s) ==
    \A i \in 1..(Len(s) - 1) : s[i].score >= s[i + 1].score

SnapshotsToday(rows, d) ==
    LET today_rows == SnapshotsOn(rows, d)
        n == Cardinality(today_rows)
    IN  {s \in [1..n -> today_rows] :
            /\ \A i, j \in 1..n : i # j => s[i] # s[j]
            /\ ScoreOrdered(s)}

\* AssignRanks that passes over the rows added by this run.
AssignRanks_SkipNew(rows, s) ==
    {IF x.rank # 0 /\ \E i \in 1..Len(s) : s[i] = x
     THEN [x EXCEPT !.rank = CHOOSE i \in 1..Len(s) : s[i] = x]
     ELSE x : x \in rows}

\* for rank, snapshot in enumerate(snapshots_today, 1): snapshot.rank = rank
AssignRanks(rows, s) ==
    {IF \E i \in 1..Len(s) : s[i] = x
     THEN [x EXCEPT !.rank = CHOOSE i \in 1..Len(s) : s[i] = x]
     ELSE x : x \in rows}

\* db.session.rollback(): the session's pending rows are dropped and the
\* table stays as committed.
RolledBack_KeepPending(committed, pending) == pending

RolledBack(committed, pending) == committed

Min(S) == CHOOSE x \in S : \A y \in S : x <= y

\* today = utcnow().date(); movies = Movie.query.all()
PassStart ==
    /\ batch.pc = "idle"
    /\ batch' = [IdleBatch EXCEPT !.pc = "scoring", !.today = Date(now),
                                  !.todo = Movies, !.sess = snapshots,
                                  !.pre_snapshots = snapshots,
                                  !.prev = lastRun]
    /\ UNCHANGED <<ratings, now, rateVars, apiVars, watchlist, snapshots, lastRun>>

\* One turn of the loop over the movies, in the order of the query: the
\* movie's snapshot of today gets the score.
ScoredMovie_SkipFailed(m, sc, failed) ==
    [batch EXCEPT !.todo = batch.todo \ {m},
                  !.sess = IF failed THEN batch.sess
                           ELSE UpsertSnapshot(batch.sess, m, batch.today, sc),
                  !.errs = IF failed THEN batch.errs \cup {m} ELSE batch.errs,
                  !.adds[m] = WatchAdds7d(watchlist, m, now)]

ScoredMovie(m, sc, failed) ==
    [batch EXCEPT !.todo = batch.todo \ {m},
                  !.sess = UpsertSnapshot(batch.sess, m, batch.today, sc),
                  !.errs = IF failed THEN batch.errs \cup {m} ELSE batch.errs,
                  !.adds[m] = WatchAdds7d(watchlist, m, now)]

PassScoreMovie ==
    /\ batch.pc = "scoring"
    /\ batch.todo # {}
    /\ batch' = ScoredMovie(Min(batch.todo),
                    calculate_popularity_score(ratings, watchlist,
                                               Min(batch.todo), now),
                    FALSE)
    /\ UNCHANGED <<ratings, now, rateVars, apiVars, watchlist, snapshots, lastRun>>

\* calculate_popularity_score raises inside its try: the score is 0.0 and
\* the loop goes on.
PassScoreMovieError ==
    /\ batch.pc = "scoring"
    /\ batch.todo # {}
    /\ batch' = ScoredMovie(Min(batch.todo), ErrorScore, TRUE)
    /\ UNCHANGED <<ratings, now, rateVars, apiVars, watchlist, snapshots, lastRun>>

\* Movie.query.all() raises before anything is written.
PassStartFail ==
    /\ batch.pc = "idle"
    /\ batch' = [IdleBatch EXCEPT !.pc = "done", !.result = "False",
                                  !.today = Date(now), !.todo = Movies,
                                  !.pre_snapshots = snapshots,
                                  !.prev = lastRun]
    /\ UNCHANGED <<ratings, now, rateVars, apiVars, watchlist, snapshots, lastRun>>

\* The ranks, once the loop is over.
PassRank ==
    /\ batch.pc = "scoring"
    /\ batch.todo = {}
    /\ \E s \in SnapshotsToday(batch.sess, batch.today) :
          batch' = [batch EXCEPT !.pc = "commit",
                                 !.sess = AssignRanks(batch.sess, s)]
    /\ UNCHANGED <<ratings, now, rateVars, apiVars, watchlist, snapshots, lastRun>>

\* db.session.commit(); return True
PassCommit ==
    /\ batch.pc = "commit"
    /\ snapshots' = batch.sess
    /\ batch' = [batch EXCEPT !.pc = "done", !.result = "True"]
    /\ lastRun' = [date |-> batch.today, errs |-> batch.errs,
                   adds |-> batch.adds]
    /\ UNCHANGED <<ratings, now, rateVars, apiVars, watchlist>>

\* A statement of the pass or its commit raises: rollback, return False.
PassFail ==
    /\ batch.pc \in {"scoring", "commit"}
    /\ snapshots' = RolledBack(snapshots, batch.sess)
    /\ batch' = [batch EXCEPT !.pc = "done", !.result = "False",
                               !.sess = {}, !.errs = {},
                               !.adds = [m \in Movies |-> 0]]
    /\ UNCHANGED <<ratings, now, rateVars, apiVars, watchlist, lastRun>>

PassReturn ==
    /\ batch.pc = "done"
    /\ batch' = IdleBatch
    /\ UNCHANGED <<ratings, now, rateVars, apiVars, watchlist, snapshots, lastRun>>

\* The store the pass runs on: the seeded ratings of one user (a rating of
\* 10 with a comment, a rating of 2 without), and watchlist rows added
\* exactly seven days before the clock's start.
SeedChoices == {<<10, "good">>, <<2, None>>}

SeededRatings ==
    {{RatingRow(<<m, 1, 1>>, m, 1, f[m][1], f[m][2], 0) : m \in DOMAIN f} :
        f \in UNION {[M -> SeedChoices] : M \in SUBSET Movies}}

SeededWatchlists ==
    {{[user_id |-> 1, movie_id |-> m,
       added_at |-> 0 - WindowDays * TicksPerDay] : m \in M} :
        M \in SUBSET Movies}

InitNightly ==
    /\ ratings \in SeededRatings
    /\ imdb_score = [m \in Movies |-> NewImdbScore(AvgRating(ratings, m))]
    /\ now = 0
    /\ req = [p \in Procs |-> IdleReq]
    /\ served = 0
    /\ watchlist \in SeededWatchlists
    /\ snapshots = {}
    /\ batch = IdleBatch
    /\ lastRun = NoRun
    /\ ApiIdle

NightTick ==
    /\ now < MaxNightTime
    /\ now' = now + 1
    /\ UNCHANGED <<ratings, rateVars, nightVars, apiVars>>

NextNightly ==
    \/ NightTick
    \/ PassStart
    \/ PassStartFail
    \/ PassScoreMovie
    \/ PassScoreMovieError
    \/ PassRank
    \/ PassCommit
    \/ PassFail
    \/ PassReturn

SpecNightly == InitNightly /\ [][NextNightly]_vars

\* The store a day after a committed pass, with empty watchlists: the
\* snapshot table holds the rows that yesterday's pass wrote for the same
\* ratings, ranked.
Yesterday == Date(0) - 1

YesterdaySnapshots(rts, wl) ==
    LET at == Yesterday * TicksPerDay
        rows == {SnapshotRow(m, Yesterday,
                             calculate_popularity_score(rts, wl, m, at), 0) :
                    m \in Movies}
    IN  {AssignRanks(rows, s) : s \in SnapshotsToday(rows, Yesterday)}

InitHistory ==
    /\ ratings \in SeededRatings
    /\ imdb_score = [m \in Movies |-> NewImdbScore(AvgRating(ratings, m))]
    /\ now = 0
    /\ req = [p \in Procs |-> IdleReq]
    /\ served = 0
    /\ watchlist = {}
    /\ snapshots \in YesterdaySnapshots(ratings, watchlist)
    /\ batch = IdleBatch
    /\ lastRun = NoRun
    /\ ApiIdle

SpecHistory == InitHistory /\ [][NextNightly]_vars

\* ------------------------------------- update_movie_rating, called directly
\* seed_data.update_movie_scores: svc.update_movie_rating(str(m.id)) for each
\* movie, on the ratings create_sample_ratings has committed.  The movies
\* carry the literal imdb_score of the sample data until then.
SampleImdbScore == 93

RatingValues == 1..10

\* The ratings of the sample users, drawn for movie 1: any user may have
\* rated it once, with any score.
SampleRatings ==
    {{RatingRow(<<1, u, 1>>, 1, u, f[u], None, 0) : u \in DOMAIN f} :
        f \in UNION {[U -> RatingValues] : U \in SUBSET (1..MaxRaters)}}

InitRecompute ==
    /\ ratings \in SampleRatings
    /\ imdb_score = [m \in Movies |-> SampleImdbScore]
    /\ now = 0
    /\ req = [p \in Procs |-> IdleReq]
    /\ served = 0
    /\ watchlist = {}
    /\ snapshots = {}
    /\ batch = IdleBatch
    /\ lastRun = NoRun
    /\ ApiIdle

\* update_movie_rating(movie_id) returns True.
UpdateMovieRating(m) ==
    /\ req[1].pc = "idle"
    /\ imdb_score' = [imdb_score EXCEPT
                        ![m] = NewImdbScore(AvgRating(ratings, m))]
    /\ req' = [req EXCEPT ![1] = [IdleReq EXCEPT !.pc = "recomputed",
                                                 !.movie_id = m,
                                                 !.recompute = "ok"]]
    /\ UNCHANGED <<ratings, now, served, nightVars, apiVars>>

\* update_movie_rating(movie_id) raises, rolls back and returns False.
UpdateMovieRatingFail(m) ==
    /\ req[1].pc = "idle"
    /\ req' = [req EXCEPT ![1] = [IdleReq EXCEPT !.pc = "recomputed",
                                                 !.movie_id = m,
                                                 !.recompute = "failed"]]
    /\ UNCHANGED <<ratings, imdb_score, now, served, nightVars, apiVars>>

UpdateMovieRatingReturn ==
    /\ req[1].pc = "recomputed"
    /\ req' = [req EXCEPT ![1] = IdleReq]
    /\ UNCHANGED <<ratings, imdb_score, now, served, nightVars, apiVars>>

NextRecompute ==
    \/ UpdateMovieRating(1)
    \/ UpdateMovieRatingFail(1)
    \/ UpdateMovieRatingReturn

SpecRecompute == InitRecompute /\ [][NextRecompute]_vars

\* Requests handled one at a time by one worker.
RateRequestSeq(u, m, d, c) ==
    /\ RateRequest(1, u, m, d, c)
    /\ UNCHANGED served

RateReadFailSeq(u, m) ==
    /\ RateReadFail(1, u, m)
    /\ UNCHANGED served

Next ==
    \/ Tick
    \/ \E u \in Users, m \in MovieIds, d \in RatingData, c \in CommentInputs :
          RateRequestSeq(u, m, d, c)
    \/ \E u \in Users, m \in MovieIds \cap Movies : RateReadFailSeq(u, m)
    \/ RateSteps(1)

Spec == Init /\ [][Next]_vars

\* Requests handled by concurrent workers; a run accepts MaxRequests of them.
RateRequestConc(p, u, m, d, c) ==
    /\ served < MaxRequests
    /\ RateRequest(p, u, m, d, c)
    /\ served' = served + 1

NextConc ==
    \/ Tick
    \/ \E p \in Procs, u \in Users, m \in MovieIds, d \in RatingData,
          c \in CommentInputs : RateRequestConc(p, u, m, d, c)
    \/ \E p \in Procs : RateSteps(p)

SpecConc == Init /\ [][NextConc]_vars

\* -------------------------------------------------------------------- texts
\* Titles, names, summaries and queries are sequences of characters.
Batman == <<"B", "a", "t", "m", "a", "n">>
Combat == <<"C", "o", "m", "b", "a", "t">>
Zorro == <<"Z", "o", "r", "r", "o">>
BatUnderAt == <<"B", "a", "t", "_", "a", "t">>
UnderAtlas == <<"_", "a", "t", "l", "a", "s">>
ABat == <<"a", " ", "b", "a", "t">>
Zzz == <<"z", "z", "z">>
Batista == <<"B", "a", "t", "i", "s", "t", "a">>
Zed == <<"Z", "e", "d">>

\* str.lower() on the letters the texts use.
LowerCase == [c \in {"A", "B", "C", "Z"} |->
                IF c = "A" THEN "a"
                ELSE IF c = "B" THEN "b" ELSE IF c = "C" THEN "c" ELSE "z"]
Lower(c) == IF c \in DOMAIN LowerCase THEN LowerCase[c] ELSE c

\* SQL LIKE on lower-cased operands (ilike): in the pattern '%' stands for
\* any run of characters, '_' for any one character, every other character
\* for itself.
RECURSIVE Like(_, _)
Like(s, pat) ==
    IF pat = <<>> THEN s = <<>>
    ELSE IF Head(pat) = "%"
    THEN Like(s, Tail(pat)) \/ (s # <<>> /\ Like(Tail(s), pat))
    ELSE /\ s # <<>>
         /\ Head(pat) = "_" \/ Lower(Head(pat)) = Lower(Head(s))
         /\ Like(Tail(s), Tail(pat))

\* column.ilike(pattern); a NULL column matches nothing.
Ilike(col, pat) == col # <<None>> /\ Like(col, pat)

\* search_term = f"%{query}%" and exact_term = f"{query}%"
search_term(query) == <<"%">> \o query \o <<"%">>
exact_term(query) == query \o <<"%">>

\* str.strip(): leading and trailing blanks are dropped.
RECURSIVE LStrip(_)
LStrip(s) == IF s # <<>> /\ Head(s) = " " THEN LStrip(Tail(s)) ELSE s

RECURSIVE RStrip(_)
RStrip(s) ==
    IF s # <<>> /\ s[Len(s)] = " " THEN RStrip(SubSeq(s, 1, Len(s) - 1))
    ELSE s

Strip(s) == RStrip(LStrip(s))

\* The rows of a set in id order, as a list.
RECURSIVE SortedSeq(_)
SortedSeq(S) ==
    IF S = {} THEN <<>>
    ELSE LET x == CHOOSE y \in S : \A z \in S : y <= z
         IN  <<x>> \o SortedSeq(S \ {x})

Range(seq) == {seq[i] : i \in DOMAIN seq}

\* ---------------------------------------------------------------- catalogue
\* A NULL text column.
Null == <<None>>

\* Movie rows the catalogue is drawn from: title, original_title (nullable),
\* summary and the cached imdb_score in tenths.
MovieProfiles ==
    {[title |-> Batman, original_title |-> Null, summary |-> ABat,
      imdb_score |-> 90],
     [title |-> Combat, original_title |-> Batman, summary |-> Zzz,
      imdb_score |-> 50],
     [title |-> Zorro, original_title |-> Null, summary |-> Zzz,
      imdb_score |-> 70],
     [title |-> BatUnderAt, original_title |-> Null, summary |-> Zzz,
      imdb_score |-> 90],
     [title |-> UnderAtlas, original_title |-> Null, summary |-> Zzz,
      imdb_score |-> 50]}

\* The movies whose rows are drawn freely, and the two actors.
FreeMovies == {1, 2}
ActorNames == {<<Batista, Zed>>, <<Batista, Batista>>}
\* movie_actors rows among the free movies and the two actors.
CastChoices ==
    {{}, {<<1, 1>>}, {<<1, 1>>, <<1, 2>>}, {<<1, 1>>, <<2, 1>>, <<2, 2>>}}

\* A block of further rows that makes the tables larger than the result
\* caps: MaxFiller movies whose title matches, MaxFiller movies billed with
\* actor 1, MaxFiller further actors, or MaxFiller movies whose title begins
\* with an underscore.
Fillers ==
    {[movies |-> 0, title |-> Zorro, billed |-> FALSE, actors |-> 0],
     [movies |-> MaxFiller, title |-> Batman, billed |-> FALSE, actors |-> 0],
     [movies |-> MaxFiller, title |-> Zorro, billed |-> TRUE, actors |-> 0],
     [movies |-> 0, title |-> Zorro, billed |-> FALSE, actors |-> MaxFiller],
     [movies |-> MaxFiller, title |-> UnderAtlas, billed |-> FALSE,
      actors |-> 0]}

FillerIds(fill) ==
    (Cardinality(FreeMovies) + 1)..(Cardinality(FreeMovies) + fill.movies)

Catalogue(free, names, cast, fill) ==
    [movies |->
        [i \in FreeMovies \cup FillerIds(fill) |->
            IF i \in FreeMovies
            THEN [title |-> free[i].title,
                  original_title |-> free[i].original_title,
                  summary |-> free[i].summary]
            ELSE [title |-> fill.title, original_title |-> Null,
                  summary |-> Zzz]],
     actors |->
        [a \in 1..(2 + fill.actors) |-> IF a <= 2 THEN names[a] ELSE Batista],
     movie_actors |->
        cast \cup (IF fill.billed THEN {<<i, 1>> : i \in FillerIds(fill)}
                   ELSE {})]

\* The cached scores of the catalogue's movies; the filler movies carry
\* pairwise different scores.
CatalogueScores(free, fill) ==
    [i \in FreeMovies \cup FillerIds(fill) |->
        IF i \in FreeMovies THEN free[i].imdb_score ELSE 10 + i]

MovieIdsOf(cat) == DOMAIN cat.movies
ActorIdsOf(cat) == DOMAIN cat.actors

\* ---------------------------------------------------------------- typeahead
\* query.limit(n).all() without ORDER BY: any n of the matching rows (all of
\* them when there are fewer).  Lists built from such a result are kept in
\* id order.
LimitAll(S, n) ==
    LET k == IF Cardinality(S) < n THEN Cardinality(S) ELSE n
    IN  IF k = Cardinality(S) THEN {S}
        ELSE {T \in SUBSET S : Cardinality(T) = k}

\* query.order_by(Movie.imdb_score.desc()).limit(n).all(): the n best rows,
\* best first; rows of equal score come in any order.
RECURSIVE OrderByScoreLimit(_, _, _)
OrderByScoreLimit(S, sc, n) ==
    IF n <= 0 \/ S = {} THEN {<<>>}
    ELSE UNION {{<<x>> \o t : t \in OrderByScoreLimit(S \ {x}, sc, n - 1)} :
                  x \in {y \in S : \A z \in S : sc[z] <= sc[y]}}

MovieItem(m) == [type |-> "movie", id |-> m]
ActorItem(a) == [type |-> "actor", id |-> a]

Items(seq, type) ==
    [i \in DOMAIN seq |-> IF type = "movie" THEN MovieItem(seq[i])
                          ELSE ActorItem(seq[i])]

\* .limit(2) of the exact-match query
ExactLimit == 2
\* the budget of suggestions: len(suggestions) < 3, limit(3 - len), [:3]
MaxSuggestions == 3

\* Movie.title.ilike(exact_term)
exact_movies(cat, query) ==
    {m \in MovieIdsOf(cat) : Ilike(cat.movies[m].title, exact_term(query))}

\* Movie.title.ilike(search_term) and not Movie.title.ilike(exact_term)
other_movies_All(cat, query) ==
    {m \in MovieIdsOf(cat) : Ilike(cat.movies[m].title, search_term(query))}

other_movies(cat, query) ==
    {m \in MovieIdsOf(cat) :
        /\ Ilike(cat.movies[m].title, search_term(query))
        /\ ~Ilike(cat.movies[m].title, exact_term(query))}

\* Actor.full_name.ilike(search_term)
matching_actors(cat, query) ==
    {a \in ActorIdsOf(cat) : Ilike(cat.actors[a], search_term(query))}

\* suggestions[:3]
FirstN(seq, n) == SubSeq(seq, 1, IF Len(seq) < n THEN Len(seq) ELSE n)

\* The lists the second and third query add, given the list so far.
OtherSuggestions(cat, sc, query, sofar) ==
    IF Len(sofar) < MaxSuggestions
    THEN {sofar \o Items(t, "movie") :
            t \in OrderByScoreLimit(other_movies(cat, query), sc,
                                    MaxSuggestions - Len(sofar))}
    ELSE {sofar}

ActorSuggestions(cat, query, sofar) ==
    IF Len(sofar) < MaxSuggestions
    THEN {sofar \o Items(SortedSeq(T), "actor") :
            T \in LimitAll(matching_actors(cat, query),
                           MaxSuggestions - Len(sofar))}
    ELSE {sofar}

\* get_typeahead_suggestions: every list the three queries can produce.
get_typeahead_suggestions_NoBudget(cat, sc, query) ==
    {Items(s1, "movie") \o Items(s2, "movie") \o Items(SortedSeq(T), "actor") :
        s1 \in OrderByScoreLimit(exact_movies(cat, query), sc, ExactLimit),
        s2 \in OrderByScoreLimit(other_movies(cat, query), sc, MaxSuggestions),
        T \in LimitAll(matching_actors(cat, query), MaxSuggestions)}

get_typeahead_suggestions(cat, sc, query) ==
    {FirstN(s3, MaxSuggestions) :
        s3 \in UNION {ActorSuggestions(cat, query, s2) :
                 s2 \in UNION {OtherSuggestions(cat, sc, query,
                                                Items(s1, "movie")) :
                          s1 \in OrderByScoreLimit(exact_movies(cat, query),
                                                   sc, ExactLimit)}}}

\* len(query) < 3 in the typeahead route
MinQueryLen == 3

\* The queries a client sends (request.args.get('q', '')), blanks included.
RawQueries ==
    {<<>>, <<" ", " ">>, <<"b", "a">>, <<" ", "a", "t", " ">>,
     <<"b", "a", "t">>, <<"_", "a", "t">>, <<"x", "y", "z">>}

\* The typeahead route.
Typeahead(raw) ==
    /\ search.endpoint = "none"
    /\ LET query == Strip(raw)
           r0 == [IdleSearch EXCEPT !.endpoint = "typeahead", !.q = query]
       IN  IF query = <<>>
           THEN search' = [r0 EXCEPT !.status = 200]
           ELSE IF Len(query) < MinQueryLen
           THEN search' = [r0 EXCEPT !.status = 400, !.msg = "too short"]
           ELSE \E s \in get_typeahead_suggestions(catalog, imdb_score, query) :
                  search' = [r0 EXCEPT !.status = 200, !.suggestions = s]
    /\ UNCHANGED <<ratings, now, rateVars, nightVars, toggles, catalog, calc, authVars>>

\* A query of get_typeahead_suggestions raises: the except branch returns
\* [], and the route answers 200 with it.
TypeaheadFail(raw) ==
    /\ search.endpoint = "none"
    /\ Len(Strip(raw)) >= MinQueryLen
    /\ search' = [IdleSearch EXCEPT !.endpoint = "typeahead",
                                    !.q = Strip(raw), !.status = 200,
                                    !.failed = TRUE]
    /\ UNCHANGED <<ratings, now, rateVars, nightVars, toggles, catalog, calc, authVars>>

\* ------------------------------------------------------------ search_movies
\* .limit(10) of each query, and all_movies[:10]
SearchLimit == 10
TitlesCap == 10

\* request.args.get('type', 'all'): the four modes and an unknown one.
SearchTypes == {"all", "title", "summary", "people", "any"}

\* if search_type not in valid_types: search_type = 'all'
ValidType(t) == IF t \in {"all", "title", "summary", "people"} THEN t ELSE "all"

\* The modes that fill the titles bucket, and the modes that fill people.
TitleModes == {"all", "title", "summary"}

PeopleModes_Every == {"all", "title", "summary", "people"}

PeopleModes == {"all", "people"}

\* Movie.title.ilike(search_term) or Movie.original_title.ilike(search_term)
movies_by_title(cat, query) ==
    {m \in MovieIdsOf(cat) :
        \/ Ilike(cat.movies[m].title, search_term(query))
        \/ Ilike(cat.movies[m].original_title, search_term(query))}

\* Movie.summary.ilike(search_term)
movies_by_summary(cat, query) ==
    {m \in MovieIdsOf(cat) : Ilike(cat.movies[m].summary, search_term(query))}

\* Movie joined to MovieActor joined to Actor, filtered by the actor's name:
\* one row per matching billing.
movies_by_actor(cat, query) ==
    {r \in cat.movie_actors : Ilike(cat.actors[r[2]], search_term(query))}

\* The lists the three movie queries can append to movies_by_content, by
\* mode; the join returns each movie of its (at most 10) rows once.
TitleLists(cat, query, type) ==
    IF type \in {"all", "title"}
    THEN {SortedSeq(T) : T \in LimitAll(movies_by_title(cat, query), SearchLimit)}
    ELSE {<<>>}

SummaryLists(cat, query, type) ==
    IF type \in {"all", "summary"}
    THEN {SortedSeq(T) :
            T \in LimitAll(movies_by_summary(cat, query), SearchLimit)}
    ELSE {<<>>}

ActorMovieLists_None(cat, query, type) == {<<>>}

ActorMovieLists(cat, query, type) ==
    IF type = "all"
    THEN {SortedSeq({r[1] : r \in R}) :
            R \in LimitAll(movies_by_actor(cat, query), SearchLimit)}
    ELSE {<<>>}

movies_by_content(cat, query, type) ==
    {tl \o al : tl \in {t \o s : t \in TitleLists(cat, query, type),
                                 s \in SummaryLists(cat, query, type)},
                al \in ActorMovieLists(cat, query, type)}

\* list(set(movies_by_content))[:10]: the set drops repeated movies and
\* fixes no order, so any 10 of the distinct movies can be the result.
all_movies_NoSet(content, n) ==
    {SubSeq(content, 1, IF Len(content) < n THEN Len(content) ELSE n)}

all_movies(content, n) == {SortedSeq(T) : T \in LimitAll(Range(content), n)}

\* results['titles'] for a mode.
titles_of(cat, query, type) ==
    IF type \in TitleModes
    THEN UNION {all_movies(c, TitlesCap) :
                  c \in movies_by_content(cat, query, type)}
    ELSE {<<>>}

\* results['people'] for a mode.
people_of(cat, query, type) ==
    IF type \in PeopleModes
    THEN {SortedSeq(T) : T \in LimitAll(matching_actors(cat, query), SearchLimit)}
    ELSE {<<>>}

\* results = {'titles': [], 'people': []}, then each bucket is assigned.
search_movies(cat, query, type) ==
    {[titles |-> t, people |-> p] :
        t \in titles_of(cat, query, type), p \in people_of(cat, query, type)}

\* The search route.
Search(raw, t) ==
    /\ search.endpoint = "none"
    /\ LET query == Strip(raw)
           r0 == [IdleSearch EXCEPT !.endpoint = "search", !.q = query,
                                    !.type = ValidType(t)]
       IN  IF query = <<>>
           THEN search' = [IdleSearch EXCEPT !.endpoint = "search",
                                             !.q = query, !.type = t,
                                             !.status = 400,
                                             !.msg = "required"]
           ELSE \E r \in search_movies(catalog, query, ValidType(t)) :
                  search' = [r0 EXCEPT !.status = 200, !.results = r]
    /\ UNCHANGED <<ratings, now, rateVars, nightVars, toggles, catalog, calc, authVars>>

\* A query of search_movies raises: the except branch returns both buckets
\* empty, and the route answers 200 with them.
SearchFail(raw, t) ==
    /\ search.endpoint = "none"
    /\ Strip(raw) # <<>>
    /\ search' = [IdleSearch EXCEPT
                    !.endpoint = "search", !.q = Strip(raw),
                    !.type = ValidType(t), !.status = 200, !.failed = TRUE,
                    !.results = [titles |-> <<>>, people |-> <<>>]]
    /\ UNCHANGED <<ratings, now, rateVars, nightVars, toggles, catalog, calc, authVars>>

\* The response has been sent; the next request can be answered.
SearchReturn ==
    /\ search.endpoint # "none"
    /\ search' = IdleSearch
    /\ UNCHANGED <<ratings, now, rateVars, nightVars, toggles, catalog, calc, authVars>>

\* Any catalogue, with the search endpoints at rest.
InitSearch ==
    /\ ratings = {}
    /\ now = 0
    /\ req = [p \in Procs |-> IdleReq]
    /\ served = 0
    /\ watchlist = {}
    /\ snapshots = {}
    /\ batch = IdleBatch
    /\ lastRun = NoRun
    /\ NoCalc
    /\ NoToggle
    /\ NoAuth
    /\ search = IdleSearch
    /\ \E free \in [FreeMovies -> MovieProfiles], names \in ActorNames,
          cast \in CastChoices, fill \in Fillers :
          /\ catalog = Catalogue(free, names, cast, fill)
          /\ imdb_score = CatalogueScores(free, fill)

NextSearch ==
    \/ \E raw \in RawQueries : Typeahead(raw)
    \/ \E raw \in RawQueries : TypeaheadFail(raw)
    \/ \E raw \in RawQueries, t \in SearchTypes : Search(raw, t)
    \/ \E raw \in RawQueries, t \in SearchTypes : SearchFail(raw, t)
    \/ SearchReturn

SpecSearch == InitSearch /\ [][NextSearch]_vars

\* ------------------------------------------- the score formula on its own
\* The four numbers the formula is fed: an average (as <<sum, count>>, count
\* 0 for 'no ratings': 0.0), a comment count, a page-view count and a count
\* of watchlist adds.
AvgInputs ==
    {<<0, 0>>} \cup UNION {{<<sm, n>> : sm \in n..(10 * n)} : n \in 1..MaxAvgCount}
CommentCounts == 0..MaxComments
PageViews == 0..(5 * MaxComments)
WatchlistAdds == 0..MaxAdds

\* The average a is below the average b.
AvgBelow(a, b) ==
    a[1] * (IF b[2] = 0 THEN 1 ELSE b[2]) < b[1] * (IF a[2] = 0 THEN 1 ELSE a[2])

\* return round(total_score, 2)
ScoreOfInputs(c) ==
    popularity_score(c.avg, c.comment_count, c.page_views_7d,
                     c.watchlist_adds_7d)

\* The score of the changed inputs; the score before the change is kept.
Recalculated(c, what) ==
    [c EXCEPT !.score = ScoreOfInputs(c), !.prev = calc.score, !.raised = what]

\* One input is raised once, from any combination of the four.
ScoreUnchanged ==
    /\ calc.raised = "none"
    /\ UNCHANGED <<ratings, now, rateVars, nightVars, toggles, searchVars, authVars>>

RaiseAverage ==
    /\ ScoreUnchanged
    /\ \E a \in AvgInputs :
          /\ AvgBelow(calc.avg, a)
          /\ calc' = Recalculated([calc EXCEPT !.avg = a], "average")

RaiseComments ==
    /\ ScoreUnchanged
    /\ \E c \in CommentCounts :
          /\ calc.comment_count < c
          /\ calc' = Recalculated([calc EXCEPT !.comment_count = c], "comments")

RaiseViews ==
    /\ ScoreUnchanged
    /\ \E v \in PageViews :
          /\ calc.page_views_7d < v
          /\ calc' = Recalculated([calc EXCEPT !.page_views_7d = v], "views")

RaiseWatchlist ==
    /\ ScoreUnchanged
    /\ \E w \in WatchlistAdds :
          /\ calc.watchlist_adds_7d < w
          /\ calc' = Recalculated([calc EXCEPT !.watchlist_adds_7d = w],
                                  "watchlist")

InitScore ==
    /\ ratings = {}
    /\ imdb_score = [m \in Movies |-> 0]
    /\ now = 0
    /\ req = [p \in Procs |-> IdleReq]
    /\ served = 0
    /\ watchlist = {}
    /\ snapshots = {}
    /\ batch = IdleBatch
    /\ lastRun = NoRun
    /\ NoSearch
    /\ NoToggle
    /\ NoAuth
    /\ \E a \in AvgInputs, c \in CommentCounts, v \in PageViews,
          w \in WatchlistAdds :
          LET c0 == [IdleCalc EXCEPT !.avg = a, !.comment_count = c,
                                     !.page_views_7d = v,
                                     !.watchlist_adds_7d = w]
          IN  calc = [c0 EXCEPT !.score = ScoreOfInputs(c0),
                                !.prev = ScoreOfInputs(c0)]

NextScore == RaiseAverage \/ RaiseComments \/ RaiseViews \/ RaiseWatchlist

SpecScore == InitScore /\ [][NextScore]_vars

\* ------------------------------------------------------ register and login
\* Addresses and passwords are sequences of characters.
AnnLower == <<"a", "@", "x">>
AnnUpper == <<"A", "@", "x">>
BobLower == <<"b", "@", "x">>
Emails == {<<>>, AnnLower, AnnUpper, BobLower}

GoodPass == <<"S", "e", "c", "r", "e", "t", "1", "!">>
OtherPass == <<"S", "e", "c", "r", "e", "t", "2", "!">>
ShortPass == <<"S", "e", "c", "r", "1", "!", "!">>
NoDigitPass == <<"S", "e", "c", "r", "e", "t", "!", "!">>
NoSpecialPass == <<"S", "e", "c", "r", "e", "t", "1", "2">>
Passwords ==
    {<<>>, GoodPass, OtherPass, ShortPass, NoDigitPass, NoSpecialPass}

Digits == {"0", "1", "2", "3", "4", "5", "6", "7", "8", "9"}
Letters ==
    {"a", "b", "c", "d", "e", "f", "g", "h", "i", "j", "k", "l", "m", "n",
     "o", "p", "q", "r", "s", "t", "u", "v", "w", "x", "y", "z",
     "A", "B", "C", "D", "E", "F", "G", "H", "I", "J", "K", "L", "M", "N",
     "O", "P", "Q", "R", "S", "T", "U", "V", "W", "X", "Y", "Z"}
isdigit(c) == c \in Digits
isalnum(c) == c \in Digits \cup Letters

MinPasswordLen == 8

\* validate_password without the digit rule.
validate_password_NoDigitRule(password) ==
    /\ Len(password) >= MinPasswordLen
    /\ \E i \in 1..Len(password) : ~isalnum(password[i])

\* At least eight characters, one of them a digit and one of them neither a
\* letter nor a digit.
validate_password(password) ==
    /\ Len(password) >= MinPasswordLen
    /\ \E i \in 1..Len(password) : isdigit(password[i])
    /\ \E i \in 1..Len(password) : ~isalnum(password[i])

\* str.lower().
LowerStr(s) == [i \in 1..Len(s) |-> Lower(s[i])]

\* The users.email comparison of the store: the collation of the production
\* and of the default database ignores case, that of the database the tests
\* run on does not.
Collations == {"ci", "cs"}
EmailEq(stored, given) ==
    IF collation = "ci" THEN LowerStr(stored) = LowerStr(given)
    ELSE stored = given

\* User.query.filter_by(email=...): the rows whose address equals the given
\* one (at most one, the column being unique).
filter_by_email(email) == {u \in accounts : EmailEq(u.email, email)}

\* generate_password_hash and check_password_hash: a hash answers only to
\* the password it was made of; an account made by Google has none.
NoHash == [set |-> FALSE, of |-> <<>>]
generate_password_hash(password) == [set |-> TRUE, of |-> password]
check_password(u, password) ==
    IF ~u.password_hash.set THEN FALSE ELSE u.password_hash.of = password

NewUser(email, hash, provider) ==
    [id |-> Cardinality(accounts) + 1, email |-> email,
     password_hash |-> hash, auth_provider |-> provider]

\* create_access_token and create_refresh_token for a user: two tokens with
\* fresh identifiers.
create_tokens(id) ==
    {[jti |-> Cardinality(tokens) + 1, sub |-> id, type |-> "access"],
     [jti |-> Cardinality(tokens) + 2, sub |-> id, type |-> "refresh"]}

\* The model follows the tokens of the first MaxIssued sign-ins.
CanIssue == Cardinality(tokens) < 2 * MaxIssued

Answer(endpoint, email, password, status, msg, body, user) ==
    [auth EXCEPT !.endpoint = endpoint, !.email = email,
                 !.password = password, !.status = status, !.msg = msg,
                 !.body = body, !.user = user]

\* POST /auth/register.
Register(email, password) ==
    /\ auth.endpoint = "none"
    /\ IF email = <<>> \/ password = <<>>
       THEN /\ auth' = Answer("register", email, password, 400,
                              "Missing required fields", {"msg"}, 0)
            /\ UNCHANGED <<accounts, tokens>>
       ELSE IF ~validate_password(password)
       THEN /\ auth' = Answer("register", email, password, 400,
                 "Password does not meet complexity requirements.",
                 {"msg"}, 0)
            /\ UNCHANGED <<accounts, tokens>>
       ELSE IF filter_by_email(email) # {}
       THEN /\ auth' = Answer("register", email, password, 400,
                 "User with this email already exists.", {"msg"}, 0)
            /\ UNCHANGED <<accounts, tokens>>
       ELSE LET new_user == NewUser(email, generate_password_hash(password),
                                    "local")
            IN  /\ CanIssue
                /\ accounts' = accounts \cup {new_user}
                /\ tokens' = tokens \cup create_tokens(new_user.id)
                /\ auth' =
                     [Answer("register", email, password, 201,
                             "User registered successfully.",
                             {"msg", "tokens"}, new_user.id)
                        EXCEPT !.registered = @ \cup {<<email, password>>}]
    /\ UNCHANGED <<ratings, imdb_score, now, rateVars, nightVars, toggles, searchVars,
                   calc, collation>>

\* The provider check that lets every account through.
linked_elsewhere_Never(user) == FALSE

\* if user.auth_provider != 'local'
linked_elsewhere(user) == user.auth_provider # "local"

\* POST /auth/login.
Login(email, password) ==
    /\ auth.endpoint = "none"
    /\ LET found == filter_by_email(LowerStr(email))
       IN  IF found = {} \/ \A u \in found : ~check_password(u, password)
           THEN /\ auth' = Answer("login", email, password, 401,
                                   "Invalid credentials", {"msg"}, 0)
                /\ UNCHANGED tokens
           ELSE LET user == CHOOSE u \in found : TRUE
                IN  IF linked_elsewhere(user)
                    THEN /\ auth' = Answer("login", email, password, 400,
                                   "This account is linked with google",
                                   {"msg"}, 0)
                         /\ UNCHANGED tokens
                    ELSE /\ CanIssue
                         /\ tokens' = tokens \cup create_tokens(user.id)
                         /\ auth' = Answer("login", email, password, 200,
                                           "", {"access_token",
                                                "refresh_token", "user"},
                                           user.id)
    /\ UNCHANGED <<ratings, imdb_score, now, rateVars, nightVars, toggles, searchVars,
                   calc, accounts, collation>>

\* GET /auth/google/callback for an address Google vouches for: the account
\* of that address becomes a Google account, or one is made without a
\* password.
GoogleEmails == {AnnLower, BobLower}
GoogleLogin(email) ==
    /\ auth.endpoint = "none"
    /\ CanIssue
    /\ LET found == filter_by_email(email)
       IN  IF found # {}
           THEN LET user == CHOOSE u \in found : TRUE
                IN  /\ tokens' = tokens \cup create_tokens(user.id)
                    /\ accounts' = (accounts \ {user}) \cup
                                   {[user EXCEPT !.auth_provider = "google"]}
                    /\ auth' = Answer("google", email, <<>>, 302, "",
                                      {"access_token", "refresh_token"},
                                      user.id)
           ELSE LET new_user == NewUser(email, NoHash, "google")
                IN  /\ tokens' = tokens \cup create_tokens(new_user.id)
                    /\ accounts' = accounts \cup {new_user}
                    /\ auth' = Answer("google", email, <<>>, 302, "",
                                      {"access_token", "refresh_token"},
                                      new_user.id)
    /\ UNCHANGED <<ratings, imdb_score, now, rateVars, nightVars, toggles, searchVars,
                   calc, collation>>

\* The answer has been sent; the endpoints are at rest again.
AuthReturn ==
    /\ auth.endpoint # "none"
    /\ auth' = [IdleAuth EXCEPT !.registered = auth.registered,
                                !.loggedOut = auth.loggedOut]
    /\ UNCHANGED <<ratings, imdb_score, now, rateVars, nightVars, toggles, searchVars,
                   calc, accounts, collation, tokens>>

\* A request that carries a token: @jwt_required() lets it through when the
\* token is an access token this application signed; tokens do not expire
\* and no blocklist is consulted.
is_token_blacklisted(jti) == FALSE
jwt_required(token) ==
    /\ token \in tokens
    /\ token.type = "access"
    /\ ~is_token_blacklisted(token.jti)

Presented(endpoint, token, status, msg, body, user) ==
    [Answer(endpoint, <<>>, <<>>, status, msg, body, user)
       EXCEPT !.token = token]

\* POST /auth/logout.
Logout(token) ==
    /\ auth.endpoint = "none"
    /\ IF ~jwt_required(token)
       THEN auth' = Presented("logout", token, 401, "Invalid token",
                              {"msg"}, 0)
       ELSE auth' = [Presented("logout", token, 200,
                               "Successfully logged out", {"msg"}, 0)
                       EXCEPT !.loggedOut = @ \cup {token}]
    /\ UNCHANGED <<ratings, imdb_score, now, rateVars, nightVars, toggles, searchVars,
                   calc, accounts, collation, tokens>>

\* GET /auth/me.
get_current_user(token) ==
    /\ auth.endpoint = "none"
    /\ IF ~jwt_required(token)
       THEN auth' = Presented("me", token, 401, "Invalid token", {"msg"}, 0)
       ELSE IF \A u \in accounts : u.id # token.sub
       THEN auth' = Presented("me", token, 404, "User not found", {"msg"}, 0)
       ELSE auth' = Presented("me", token, 200, "", {"user"}, token.sub)
    /\ UNCHANGED <<ratings, imdb_score, now, rateVars, nightVars, toggles, searchVars,
                   calc, accounts, collation, tokens>>

\* An empty users table on either kind of store.
InitAuth ==
    /\ ratings = {}
    /\ imdb_score = [m \in Movies |-> 0]
    /\ now = 0
    /\ req = [p \in Procs |-> IdleReq]
    /\ served = 0
    /\ watchlist = {}
    /\ snapshots = {}
    /\ batch = IdleBatch
    /\ lastRun = NoRun
    /\ NoSearch
    /\ NoCalc
    /\ NoToggle
    /\ accounts = {}
    /\ auth = IdleAuth
    /\ collation \in Collations
    /\ tokens = {}

NextAuth ==
    \/ \E email \in Emails, password \in Passwords : Register(email, password)
    \/ \E email \in Emails, password \in Passwords : Login(email, password)
    \/ \E email \in GoogleEmails : GoogleLogin(email)
    \/ \E token \in tokens \cup {NoToken} : Logout(token)
    \/ \E token \in tokens \cup {NoToken} : get_current_user(token)
    \/ AuthReturn

SpecAuth == InitAuth /\ [][NextAuth]_vars

\* ---------------------------------------------------------- toggle_watchlist
\* The watchlist rows of a (user, movie) pair.
EntriesOf(wl, u, m) == {e \in wl : e.user_id = u /\ e.movie_id = m}

ToggleFrame ==
    UNCHANGED <<ratings, now, rateVars, snapshots, batch, lastRun,
                searchVars, calc, authVars>>

\* User.query.get, Movie.query.get and the lookup of the pair's row:
\* 404 for an unknown movie, else the row (or none) is held for the write.
ToggleRead(p, u, m) ==
    /\ toggles[p].pc = "idle"
    /\ toggles' =
         [toggles EXCEPT ![p] =
            IF m \notin Movies
            THEN [IdleToggle EXCEPT !.pc = "done", !.user_id = u,
                                    !.movie_id = m, !.status = 404]
            ELSE [IdleToggle EXCEPT
                    !.pc = "write", !.user_id = u, !.movie_id = m,
                    !.existing = IF EntriesOf(watchlist, u, m) = {}
                                 THEN NoEntry
                                 ELSE CHOOSE e \in EntriesOf(watchlist, u, m) :
                                         TRUE]]
    /\ UNCHANGED watchlist
    /\ ToggleFrame

\* The toggle has answered: what it did, whether the pair's rows at its
\* write were no longer those it had read, and whether its write changed
\* the table.
Toggled(p, action, status, changed) ==
    [toggles EXCEPT
       ![p].pc = "done", ![p].action = action, ![p].status = status,
       ![p].changed = changed,
       ![p].raced =
          EntriesOf(watchlist, toggles[p].user_id, toggles[p].movie_id)
            # (IF toggles[p].existing = NoEntry THEN {}
               ELSE {toggles[p].existing})]

\* The duplicate key check of the primary key (user_id, movie_id) that lets
\* every insert through.
PrimaryKeyTaken_Never(wl, u, m) == FALSE

\* The primary key (user_id, movie_id) of table watchlist: an insert of a
\* pair that has a row raises.
PrimaryKeyTaken(wl, u, m) == EntriesOf(wl, u, m) # {}

\* db.session.delete(existing) or db.session.add(watchlist_item), then
\* db.session.commit().  A DELETE that matches no row is not an error; an
\* INSERT of a pair that has a row is: rollback, 500.
ToggleCommit(p) ==
    /\ toggles[p].pc = "write"
    /\ LET u == toggles[p].user_id
           m == toggles[p].movie_id
       IN  IF toggles[p].existing # NoEntry
           THEN /\ watchlist' = watchlist \ EntriesOf(watchlist, u, m)
                /\ toggles' = Toggled(p, "removed", 200,
                                      EntriesOf(watchlist, u, m) # {})
           ELSE IF PrimaryKeyTaken(watchlist, u, m)
           THEN /\ UNCHANGED watchlist
                /\ toggles' = Toggled(p, "added", 500, FALSE)
           ELSE /\ watchlist' = watchlist \cup
                      {[user_id |-> u, movie_id |-> m, added_at |-> now]}
                /\ toggles' = Toggled(p, "added", 200, TRUE)
    /\ ToggleFrame

\* Any statement of the toggle raises: rollback, 500.
ToggleFail(p) ==
    /\ toggles[p].pc = "write"
    /\ toggles' = [Toggled(p, "none", 500, FALSE) EXCEPT ![p].raced = FALSE]
    /\ UNCHANGED watchlist
    /\ ToggleFrame

ToggleReturn(p) ==
    /\ toggles[p].pc = "done"
    /\ toggles' = [toggles EXCEPT ![p] = IdleToggle]
    /\ UNCHANGED watchlist
    /\ ToggleFrame

NextToggle ==
    \/ \E p \in Procs, u \in Users, m \in MovieIds : ToggleRead(p, u, m)
    \/ \E p \in Procs : ToggleCommit(p)
    \/ \E p \in Procs : ToggleFail(p)
    \/ \E p \in Procs : ToggleReturn(p)

SpecToggle == Init /\ [][NextToggle]_vars

\* ------------------------------------------- comments and the comment count
\* data.get('comment') as a client can send it: absent, the empty string, a
\* text.
CommentTexts == {None, "", "good"}

\* A body with a valid integer rating.
TenRating == [given |-> TRUE, rating |-> 100]

\* calculate_popularity_score(movie_id) on the store as it is: the inputs it
\* reads and the score it returns.
Calculate(m) ==
    /\ calc' = [IdleCalc EXCEPT
                  !.movie_id = m,
                  !.rows = RowsOfMovie(ratings, m),
                  !.avg = AvgRating(ratings, m),
                  !.comment_count = CommentCount(ratings, m),
                  !.page_views_7d = CommentCount(ratings, m) * 5,
                  !.watchlist_adds_7d = WatchAdds7d(watchlist, m, now),
                  !.score = calculate_popularity_score(ratings, watchlist,
                                                       m, now),
                  !.raised = "calculated"]
    /\ UNCHANGED <<ratings, now, rateVars, nightVars, toggles, searchVars, authVars>>

NextComments ==
    \/ \E u \in Users, c \in CommentTexts : RateRequestSeq(u, 1, TenRating, c)
    \/ RateSteps(1)
    \/ \E m \in Movies : Calculate(m)

SpecComments == Init /\ [][NextComments]_vars

\* ------------------------------------------------------------------ claims
\* The request of worker p has committed its rating row: it is in, or has
\* been through, update_movie_rating.
Committed(p) ==
    \/ req[p].pc \in {"avg", "avg_commit", "respond"}
    \/ req[p].pc = "done" /\ req[p].recompute # "none"

\* x (in tenths) is a tenth nearest to sum / n.
NearestTenth(x, sum, n) ==
    /\ 2 * (x * n - 10 * sum) <= n
    /\ 2 * (10 * sum - x * n) <= n

\* x is the mean of movie m's ratings to one decimal, 0.0 without ratings.
IsAverageOf(x, rows, m) ==
    IF RowsOfMovie(rows, m) = {} THEN x = 0
    ELSE NearestTenth(x, SumRatings(RowsOfMovie(rows, m)),
                      Cardinality(RowsOfMovie(rows, m)))

\* C1: with submissions made one at a time, a (user, movie) pair never has
\* more than one Rating row: a submission answered 201 found no row of the
\* pair and added one, a submission answered 200 found the row and added none.
C1_OneRowPerPair ==
    /\ \A m \in Movies, u \in Users : Cardinality(RowsOf(ratings, m, u)) <= 1
    /\ \A p \in Procs :
          (Committed(p) /\ req[p].status_code = 201) =>
             /\ RowsOf(req[p].pre_ratings, req[p].movie_id, req[p].user_id) = {}
             /\ Cardinality(ratings) = Cardinality(req[p].pre_ratings) + 1
    /\ \A p \in Procs :
          (Committed(p) /\ req[p].status_code = 200) =>
             /\ RowsOf(req[p].pre_ratings, req[p].movie_id, req[p].user_id) # {}
             /\ Cardinality(ratings) = Cardinality(req[p].pre_ratings)

\* A second submission of a pair has been answered 'updated' and the pair
\* has its one row.
C1_Witness ==
    \E p \in Procs :
       /\ req[p].pc = "done"
       /\ req[p].status = 200
       /\ Cardinality(RowsOf(ratings, req[p].movie_id, req[p].user_id)) = 1

\* C2: concurrent submissions of one (user, movie) pair never leave two
\* Rating rows of the pair.
C2_NoDuplicateRows ==
    \A m \in Movies, u \in Users : Cardinality(RowsOf(ratings, m, u)) <= 1

\* C3: once a submission is answered with success (200 or 201) and no other
\* request is in flight, the movie's imdb_score is the mean of its ratings
\* to one decimal.
C3_AverageAfterSuccess ==
    \A p \in Procs :
       (/\ req[p].pc = "done"
        /\ req[p].status \in {200, 201}
        /\ \A q \in Procs \ {p} : req[q].pc = "idle")
       => IsAverageOf(imdb_score[req[p].movie_id], ratings, req[p].movie_id)

\* C4: a nightly pass that reports failure leaves the snapshot table as it
\* was when the pass began.
C4_FailedPassLeavesNothing ==
    (batch.pc = "done" /\ batch.result = "False")
       => snapshots = batch.pre_snapshots

\* A pass has failed after it had scored a movie, over a table that already
\* held snapshots.
C4_Witness ==
    /\ batch.pc = "done"
    /\ batch.result = "False"
    /\ batch.todo # Movies
    /\ batch.pre_snapshots # {}

\* The score of movie m's snapshot of date d.
ScoresOf(rows, m, d) == {x.score : x \in SnapshotsOf(rows, m, d)}

\* The pass that has just ended is a rerun: the last committed pass was for
\* the same date.
Rerun == batch.pc = "done" /\ batch.result = "True"
         /\ batch.prev.date = batch.today

\* C5 as stated: after a rerun for the same date in which no score
\* computation raised, every movie has one snapshot and its score is the one
\* of the first run.
C5_SameScoresOnRerun ==
    (Rerun /\ batch.errs = {} /\ batch.prev.errs = {}) =>
       \A m \in Movies :
          /\ Cardinality(SnapshotsOf(snapshots, m, batch.today)) = 1
          /\ ScoresOf(snapshots, m, batch.today)
                = ScoresOf(batch.pre_snapshots, m, batch.today)

\* C5 amended: a rerun for the same date adds no row, every movie keeps
\* exactly one snapshot of the date, and the score is the first run's when
\* the computation raised in neither run and the movie's count of watchlist
\* adds of the trailing seven days was the same in both.
C5_RerunOverwrites ==
    Rerun =>
       /\ Cardinality(SnapshotsOn(snapshots, batch.today))
             = Cardinality(SnapshotsOn(batch.pre_snapshots, batch.today))
       /\ \A m \in Movies :
             /\ Cardinality(SnapshotsOf(snapshots, m, batch.today)) = 1
             /\ (/\ m \notin batch.errs \cup batch.prev.errs
                 /\ batch.adds[m] = batch.prev.adds[m])
                => ScoresOf(snapshots, m, batch.today)
                      = ScoresOf(batch.pre_snapshots, m, batch.today)

\* A rerun has ended and a movie with a positive score kept it.
C5_Witness ==
    /\ Rerun
    /\ \E m \in Movies :
          /\ m \notin batch.errs \cup batch.prev.errs
          /\ \E x \in SnapshotsOf(snapshots, m, batch.today) : x.score > 0
          /\ ScoresOf(snapshots, m, batch.today)
                = ScoresOf(batch.pre_snapshots, m, batch.today)

\* C6: after a pass that reports success the ranks of the date's N snapshots
\* are 1..N, each used once, and a strictly higher score has a smaller rank.
C6_RanksFollowScores ==
    (batch.pc = "done" /\ batch.result = "True") =>
       LET S == SnapshotsOn(snapshots, batch.today)
       IN  /\ {x.rank : x \in S} = 1..Cardinality(S)
           /\ \A a, b \in S : a.rank = b.rank => a = b
           /\ \A a, b \in S : a.score > b.score => a.rank < b.rank

\* A pass has ranked snapshots of different scores: rank 1 went to the
\* higher one and the last rank to the lower one.
C6_Witness ==
    /\ batch.pc = "done"
    /\ batch.result = "True"
    /\ \E a, b \in SnapshotsOn(snapshots, batch.today) :
          /\ a.score > b.score
          /\ a.rank = 1
          /\ b.rank = Cardinality(SnapshotsOn(snapshots, batch.today))

C8_UpdateInPlace ==
    \A p \in Procs :
       (Committed(p) /\ req[p].existing # NoRow) =>
          /\ \E old \in req[p].pre_ratings, new \in ratings :
                /\ old.id = req[p].existing
                /\ new.id = old.id
                /\ new.created_at = old.created_at
                /\ new.movie_id = old.movie_id
                /\ new.user_id = old.user_id
                /\ new.rating = req[p].rating
                /\ new.comment = req[p].comment
                /\ ratings \ {new} = req[p].pre_ratings \ {old}
          /\ req[p].status_code = 200
          /\ req[p].status # 201

\* A resubmission made after the clock moved has changed the score of the
\* row and has been answered 'updated'.
C8_Witness ==
    \E p \in Procs :
       /\ req[p].pc = "done"
       /\ req[p].status = 200
       /\ \E old \in req[p].pre_ratings :
             /\ old.id = req[p].existing
             /\ old.rating # req[p].rating
             /\ old.comment # req[p].comment
             /\ old.created_at < now

\* C9: a submission whose commit or whose recompute of the average failed
\* leaves the Rating rows and the movie's imdb_score as they were before it.
C9_NoPartialState ==
    \A p \in Procs :
       (/\ req[p].pc = "done"
        /\ \/ req[p].recompute = "failed"
           \/ (req[p].status = 500 /\ req[p].recompute = "none")
        /\ req[p].movie_id \in Movies)
       => /\ ratings = req[p].pre_ratings
          /\ imdb_score[req[p].movie_id] = req[p].pre_imdb

\* C10: a pass in which the score computation of some movies raised still
\* ends with one snapshot of the date per movie: score 0.0 for the movies
\* whose computation raised, and for every other movie the score computed
\* from its ratings and watchlist at some time of the run.
C10_ErrorScoresZero ==
    (batch.pc = "done" /\ batch.result = "True") =>
       \A m \in Movies :
          /\ Cardinality(SnapshotsOf(snapshots, m, batch.today)) = 1
          /\ m \in batch.errs => ScoresOf(snapshots, m, batch.today) = {0}
          /\ m \notin batch.errs =>
                \E t \in 0..now :
                   ScoresOf(snapshots, m, batch.today)
                      = {calculate_popularity_score(ratings, watchlist, m, t)}

\* A pass has reported success although the computation raised for one
\* movie, and another movie got its positive score.
C10_Witness ==
    /\ batch.pc = "done"
    /\ batch.result = "True"
    /\ batch.errs # {}
    /\ \E m \in Movies \ batch.errs :
          \E x \in SnapshotsOf(snapshots, m, batch.today) : x.score > 0

\* ------------------------------------------------- claims: typeahead, search
\* s starts with q, and s contains q, letter case aside: the query taken as
\* plain text.
StartsWith(s, q) ==
    /\ Len(q) <= Len(s)
    /\ \A i \in 1..Len(q) : Lower(s[i]) = Lower(q[i])

Contains(s, q) ==
    \E k \in 0..(Len(s) - Len(q)) :
        \A i \in 1..Len(q) : Lower(s[k + i]) = Lower(q[i])

TitleOf(m) == catalog.movies[m].title

NoRepeat(seq) == \A i, j \in DOMAIN seq : i # j => seq[i] # seq[j]

\* The typeahead route has answered a query of at least 3 characters.
Suggested ==
    /\ search.endpoint = "typeahead"
    /\ search.status = 200
    /\ Len(search.q) >= 3

\* C11: a typeahead response never carries more than 3 suggestions, however
\* many movies and actors match the query.
C11_AtMostThreeSuggestions ==
    search.endpoint = "typeahead" => Len(search.suggestions) <= 3

\* Three suggestions were returned although more than three rows matched.
C11_Witness ==
    /\ Suggested
    /\ Len(search.suggestions) = 3
    /\ Cardinality(exact_movies(catalog, search.q)) > 2
    /\ Cardinality(other_movies(catalog, search.q)) > 0
    /\ Cardinality(matching_actors(catalog, search.q)) > 0

\* C12: on the trimmed query the typeahead route answers: empty query, 200
\* with no suggestions; 1 or 2 characters, 400 'too short'; 3 or more
\* characters that no title and no actor name contains, 200 with no
\* suggestions.
C12_TypeaheadByLength ==
    search.endpoint = "typeahead" =>
      /\ search.q = <<>> => search.status = 200 /\ search.suggestions = <<>>
      /\ Len(search.q) \in {1, 2} =>
           search.status = 400 /\ search.msg = "too short"
      /\ ( /\ Len(search.q) >= 3
           /\ \A m \in MovieIdsOf(catalog) : ~Contains(TitleOf(m), search.q)
           /\ \A a \in ActorIdsOf(catalog) :
                ~Contains(catalog.actors[a], search.q) )
         => search.status = 200 /\ search.suggestions = <<>>

\* C13: in a typeahead response a movie whose title starts with the query
\* precedes every movie whose title only contains it, every movie precedes
\* every actor, no item comes twice, and an item of a later tier is present
\* only if the earlier tiers filled fewer than 3 slots.
C13_TierOrder ==
    Suggested =>
      LET s == search.suggestions
          Prefix(i) == s[i].type = "movie" /\ StartsWith(TitleOf(s[i].id), search.q)
          Inner(i) == /\ s[i].type = "movie"
                      /\ ~StartsWith(TitleOf(s[i].id), search.q)
                      /\ Contains(TitleOf(s[i].id), search.q)
      IN  /\ \A i, j \in DOMAIN s :
                /\ Prefix(i) /\ Inner(j) => i < j
                /\ s[i].type = "movie" /\ s[j].type = "actor" => i < j
          /\ NoRepeat(s)
          /\ \A j \in DOMAIN s :
                /\ Inner(j) => Cardinality({i \in DOMAIN s : Prefix(i)}) < 3
                /\ s[j].type = "actor" =>
                     Cardinality({i \in DOMAIN s : s[i].type = "movie"}) < 3

\* A search has been answered with its result buckets.
Searched == search.endpoint = "search" /\ search.status = 200

\* C14: a search result carries both buckets, titles and people; in mode
\* 'people' titles is empty and in modes 'title' and 'summary' people is
\* empty, also when the search failed internally.
C14_OtherBucketEmpty ==
    Searched =>
      /\ DOMAIN search.results = {"titles", "people"}
      /\ search.type = "people" => search.results.titles = <<>>
      /\ search.type \in {"title", "summary"} => search.results.people = <<>>

\* A title search returned movies and no people although an actor matched.
C14_Witness ==
    /\ Searched
    /\ search.type = "title"
    /\ search.results.titles # <<>>
    /\ search.results.people = <<>>
    /\ matching_actors(catalog, search.q) # {}

\* C15: titles holds at most 10 movies and no movie twice, also when a movie
\* is found by title, by summary and through its cast at once; people holds
\* at most 10 actors and no actor twice.
C15_CappedNoDuplicates ==
    Searched =>
      /\ Len(search.results.titles) <= 10
      /\ NoRepeat(search.results.titles)
      /\ Len(search.results.people) <= 10
      /\ NoRepeat(search.results.people)

\* Query 'bat' in mode 'all': a movie found by its title, by its summary and
\* through a billed actor is in titles, and the actor is in people.
C15_Witness ==
    /\ Searched
    /\ search.type = "all"
    /\ search.q = <<"b", "a", "t">>
    /\ \E m \in Range(search.results.titles) :
          /\ m \in movies_by_title(catalog, search.q)
          /\ m \in movies_by_summary(catalog, search.q)
          /\ \E r \in movies_by_actor(catalog, search.q) :
                r[1] = m /\ r[2] \in Range(search.results.people)

\* The movies an actor whose name contains the query is billed in.
BilledMovies(q) ==
    {r[1] : r \in {x \in catalog.movie_actors :
                      Contains(catalog.actors[x[2]], q)}}

C17_LiteralContainment ==
    Searched =>
      /\ search.type = "title" =>
           \A m \in Range(search.results.titles) :
              \/ Contains(catalog.movies[m].title, search.q)
              \/ Contains(catalog.movies[m].original_title, search.q)
      /\ search.type = "summary" =>
           \A m \in Range(search.results.titles) :
              Contains(catalog.movies[m].summary, search.q)
      /\ search.type = "people" =>
           \A a \in Range(search.results.people) :
              Contains(catalog.actors[a], search.q)

\* ------------------------------------------------ claims: rating validation
\* The JSON number r (in tenths) is an integer in [1,10].
IntegerScore(r) == r % 10 = 0 /\ 1 <= r \div 10 /\ r \div 10 <= 10

\* C18: a submission that reaches validation with a score that is not an
\* integer in [1,10] is answered 400 and leaves the ratings and the movie's
\* average as they were; every stored rating is an integer in [1,10].
C18_InvalidScoreRejected ==
    /\ \A p \in Procs :
          ( /\ req[p].pc = "done"
            /\ req[p].movie_id \in Movies
            /\ req[p].status # 500
            /\ ~IntegerScore(req[p].sent) )
          => /\ req[p].status = 400
             /\ ratings = req[p].pre_ratings
             /\ imdb_score[req[p].movie_id] = req[p].pre_imdb
    /\ \A x \in ratings : x.rating \in 1..10

\* --------------------------------------------------- claims: score formula
\* C19: raising one of the four inputs of the score formula (average rating,
\* comment count, page views, watchlist adds), the other three held, never
\* lowers the score.
C19_ScoreMonotonic == calc.raised # "none" => calc.score >= calc.prev

\* More page views alone gave a higher score.
C19_Witness == calc.raised = "views" /\ calc.score > calc.prev

\* ------------------------------------------------ claims: register and login
\* C20: after a registration with address E and password P has been answered
\* 201, a login with the same E and P is answered 200 with an access token,
\* a refresh token and the user record.
C20_LoginAfterRegister ==
    (auth.endpoint = "login" /\ <<auth.email, auth.password>> \in
                                  auth.registered)
        => /\ auth.status = 200
           /\ {"access_token", "refresh_token", "user"} \subseteq auth.body

\* The password is shorter than 8 characters, or has no digit, or has no
\* character other than letters and digits.
FailsPasswordRules(password) ==
    \/ Len(password) < 8
    \/ \A i \in 1..Len(password) : password[i] \notin Digits
    \/ \A i \in 1..Len(password) : password[i] \in Digits \cup Letters

\* C21: a registration whose password is shorter than 8 characters, or has
\* no digit, or has no special character is answered 400 and leaves the set
\* of users as it was.
C21_BadPasswordRejected ==
    [][(auth.endpoint = "none" /\ auth'.endpoint = "register"
          /\ FailsPasswordRules(auth'.password))
       => (auth'.status = 400 /\ accounts' = accounts)]_vars

\* A registration without a digit in the password has been turned down while
\* a user exists.
C21_Witness ==
    /\ auth.endpoint = "register"
    /\ auth.password = NoDigitPass
    /\ auth.email = BobLower
    /\ auth.status = 400
    /\ accounts # {}
    /\ \A u \in accounts : u.email # BobLower

\* C22: once a logout with token T has been answered 200, a request that
\* presents T to a protected endpoint is turned down.
C22_LoggedOutTokenRejected ==
    (auth.endpoint = "me" /\ auth.token \in auth.loggedOut)
        => auth.status = 401

\* ------------------------------------------------ claims: concurrent ratings
\* C23: when every worker has completed one submission for movie m, each by
\* a different user and each with its row committed and its recompute
\* committed, and no other submission was made, imdb_score[m] is the mean of
\* m's ratings to one decimal.
C23_NoStaleAverage ==
    \A m \in Movies :
       (/\ served = NumProcs
        /\ \A p \in Procs :
              /\ req[p].pc = "done"
              /\ req[p].movie_id = m
              /\ req[p].status \in {200, 201}
              /\ req[p].recompute = "ok"
        /\ \A p, q \in Procs : p # q => req[p].user_id # req[q].user_id)
       => IsAverageOf(imdb_score[m], ratings, m)

\* ------------------------------------------------- claims: the nightly pass
\* C24: after a pass that returns True every movie has exactly one snapshot
\* of the run date and its rank is set; while the scoring loop has movies
\* left, no snapshot of the session has had its rank touched: a row added by
\* this run has none, an older row has the rank it had before the pass.
C24_RankedAfterSuccess ==
    /\ (batch.pc = "done" /\ batch.result = "True") =>
          \A m \in Movies :
             /\ Cardinality(SnapshotsOf(snapshots, m, batch.today)) = 1
             /\ \A x \in SnapshotsOf(snapshots, m, batch.today) : x.rank >= 1
    /\ (batch.pc = "scoring" /\ batch.todo # {}) =>
          \A x \in batch.sess :
             \/ x.rank = 0 /\ SnapshotsOf(batch.pre_snapshots, x.movie_id,
                                          x.snapshot_date) = {}
             \/ \E y \in batch.pre_snapshots :
                   /\ y.movie_id = x.movie_id
                   /\ y.snapshot_date = x.snapshot_date
                   /\ y.rank = x.rank

\* A pass on an empty snapshot table has returned True: every snapshot of the
\* date was added by this run.
C24_Witness ==
    /\ batch.pc = "done"
    /\ batch.result = "True"
    /\ batch.pre_snapshots = {}
    /\ \A m \in Movies : SnapshotsOf(snapshots, m, batch.today) # {}

\* The snapshots of every date but d.
SnapshotsOffDate(rows, d) == {x \in rows : x.snapshot_date # d}

\* C25: from its start to its return, whether it commits or rolls back, a
\* pass for run date D leaves the snapshots of every other date as they were:
\* none added, none removed, none with another score or rank.
C25_OtherDatesUntouched ==
    batch.pc # "idle" =>
        SnapshotsOffDate(snapshots, batch.today)
            = SnapshotsOffDate(batch.pre_snapshots, batch.today)

\* A pass has committed today's snapshots next to yesterday's.
C25_Witness ==
    /\ batch.pc = "done"
    /\ batch.result = "True"
    /\ SnapshotsOffDate(snapshots, batch.today) # {}
    /\ SnapshotsOn(snapshots, batch.today) # {}

\* ------------------------------------------------ claims: watchlist toggles
\* At most one watchlist row per (user, movie) pair.
OneEntryPerPair ==
    \A u \in Users, m \in Movies :
       Cardinality(EntriesOf(watchlist, u, m)) <= 1

C27_CountsNonEmptyComments ==
    calc.raised = "calculated" =>
        calc.comment_count
            = Cardinality({x \in calc.rows : x.comment \notin {None, ""}})

\* ------------------------------------------- claims: the typeahead tiers
\* The movies whose title starts with the query, and those of them that the
\* typeahead response carries.
PrefixMovies(q) == {m \in MovieIdsOf(catalog) : StartsWith(TitleOf(m), q)}

SuggestedPrefixMovies ==
    {search.suggestions[i].id : i \in
        {j \in DOMAIN search.suggestions :
            /\ search.suggestions[j].type = "movie"
            /\ StartsWith(TitleOf(search.suggestions[j].id), search.q)}}

\* C28: a typeahead response carries at most 2 movies whose title starts
\* with the query; when 3 or more movies have such a title (and the lookup
\* did not fail) it carries 2 of them, none rated below a movie of them that
\* it leaves out.
C28_TwoBestPrefixMovies ==
    Suggested =>
      /\ Cardinality(SuggestedPrefixMovies) <= 2
      /\ (Cardinality(PrefixMovies(search.q)) >= 3 /\ ~search.failed) =>
           /\ Cardinality(SuggestedPrefixMovies) = 2
           /\ \A r \in SuggestedPrefixMovies :
                 \A m \in PrefixMovies(search.q) \ SuggestedPrefixMovies :
                    imdb_score[r] >= imdb_score[m]

\* ------------------------------------------ claims: resubmitting a rating
\* C29: once a resubmission without a comment field has committed, the
\* pair's existing row carries no comment, whatever comment it had before.
C29_ResubmitClearsComment ==
    \A p \in Procs :
       (Committed(p) /\ req[p].existing # NoRow /\ req[p].comment = None) =>
          \E new \in ratings :
             /\ new.id = req[p].existing
             /\ new.comment = None

\* A resubmission without a comment has been answered 'updated' for a row
\* that carried a comment.
C29_Witness ==
    \E p \in Procs :
       /\ req[p].pc = "done"
       /\ req[p].status = 200
       /\ req[p].comment = None
       /\ \E old \in req[p].pre_ratings :
             /\ old.id = req[p].existing
             /\ old.comment = "good"
       /\ \E new \in ratings :
             /\ new.id = req[p].existing
             /\ new.comment = None

\* ----------------------------------------------- claims: Google and password
\* C30: a Google login answered for an existing account leaves that account
\* with provider 'google'; a password login for the address of an account
\* whose provider is 'google' is never answered 200, whatever the password;
\* and no step turns an account's provider from 'google' into anything else.
C30_GoogleAccountStaysGoogle ==
    /\ [](/\ (auth.endpoint = "google" /\ auth.status = 302) =>
               \E u \in accounts : /\ u.id = auth.user
                                   /\ u.auth_provider = "google"
          /\ (auth.endpoint = "login"
                /\ \E u \in accounts : /\ EmailEq(u.email, auth.email)
                                       /\ u.auth_provider = "google")
               => auth.status \in {400, 401})
    /\ [][\A u \in accounts :
             u.auth_provider = "google" =>
                \E v \in accounts' : /\ v.id = u.id
                                     /\ v.email = u.email
                                     /\ v.auth_provider = "google"]_vars

\* A password login with the registered address and password has been turned
\* down because the account went through a Google login.
C30_Witness ==
    /\ auth.endpoint = "login"
    /\ auth.status = 400
    /\ <<auth.email, auth.password>> \in auth.registered
    /\ \E u \in accounts : /\ u.email = auth.email
                           /\ u.auth_provider = "google"
                           /\ check_password(u, auth.password)

=============================================================================
